---- MODULE Spec2Model ----
(***************************************************************************)
(* Model of the AstroKites forecast page (src/AstroKites/src/pages/        *)
(* forecast.jsx): the component state of ForecastSimplified, the fetch     *)
(* handler, processApiData and the values derived from forecastData on     *)
(* every render (getHistoricalData, dataStatistics, recentExtremeEvents,   *)
(* WeatherInsights, the per-day chart series).                             *)
(*                                                                         *)
(* Numbers.  A JavaScript number is modelled as an exact fraction n/d in   *)
(* lowest terms; rounding error of IEEE doubles is not modelled.  A value  *)
(* is a record [k, n, d]: k = "num" for a number, "null" for null,         *)
(* "undef" for undefined (a missing property) and "na" for the text 'N/A'. *)
(*                                                                         *)
(* Dates.  A date string 'YYYY-MM-DD' is modelled as [y, m, d].            *)
(* new Date('YYYY-MM-DD') is UTC midnight of that day, while getFullYear,  *)
(* getMonth and getDate read the browser's local calendar: in a time zone  *)
(* west of UTC they see the previous day, elsewhere the same day.          *)
(***************************************************************************)
EXTENDS Integers, Sequences, FiniteSets, TLC

----------------------------------------------------------------------------
(* Exact arithmetic on fractions *)

Abs(x) == IF x < 0 THEN -x ELSE x

RECURSIVE Gcd(_, _)
Gcd(a, b) == IF b = 0 THEN a ELSE Gcd(b, a % b)

Num(n, d) ==
  LET g == Gcd(Abs(n), Abs(d))
      s == IF d < 0 THEN -1 ELSE 1
  IN  [k |-> "num", n |-> (s * n) \div g, d |-> (s * d) \div g]

Int2Num(i) == [k |-> "num", n |-> i, d |-> 1]

Null == [k |-> "null", n |-> 0, d |-> 1]

Undef == [k |-> "undef", n |-> 0, d |-> 1]

NA == [k |-> "na", n |-> 0, d |-> 1]

IsNum(x) == x.k = "num"

\* value is neither undefined nor null:  x !== undefined && x !== null
Present(x) == x.k # "undef" /\ x.k # "null"

Add(a, b) == Num(a.n * b.d + b.n * a.d, a.d * b.d)

Mul(a, b) == Num(a.n * b.n, a.d * b.d)

Div(a, b) == Num(a.n * b.d, a.d * b.n)

Less(a, b) == a.n * b.d < b.n * a.d

\* the relational operators coerce null to 0 and undefined to NaN; every
\* comparison with NaN is false
JsGt(x, c) ==
  CASE x.k = "num"  -> Less(c, x)
    [] x.k = "null" -> Less(c, Int2Num(0))
    [] OTHER        -> FALSE

JsLt(x, c) ==
  CASE x.k = "num"  -> Less(x, c)
    [] x.k = "null" -> Less(Int2Num(0), c)
    [] OTHER        -> FALSE

\* x ?? 0
NullishZero(x) == IF x.k = "undef" \/ x.k = "null" THEN Int2Num(0) ELSE x

\* Number.prototype.toFixed(digits): the nearest multiple of 10^-digits,
\* a tie going to the larger magnitude; the sign is handled apart
Pow10(digits) == IF digits = 0 THEN 1 ELSE IF digits = 1 THEN 10 ELSE 100

toFixed(x, digits) ==
  LET p == Pow10(digits)
      a == Abs(x.n) * p
      q == (2 * a + x.d) \div (2 * x.d)
  IN  Num(IF x.n < 0 THEN -q ELSE q, p)

----------------------------------------------------------------------------
(* Calendar *)

isLeapYear(year) == (year % 4 = 0 /\ year % 100 # 0) \/ (year % 400 = 0)

DaysInMonth(y, m) ==
  IF m = 2 THEN (IF isLeapYear(y) THEN 29 ELSE 28)
  ELSE IF m \in {4, 6, 9, 11} THEN 30 ELSE 31

PrevDay(dt) ==
  IF dt.d > 1 THEN [dt EXCEPT !.d = dt.d - 1]
  ELSE IF dt.m > 1 THEN [y |-> dt.y, m |-> dt.m - 1, d |-> DaysInMonth(dt.y, dt.m - 1)]
  ELSE [y |-> dt.y - 1, m |-> 12, d |-> 31]

NextDay(dt) ==
  IF dt.d < DaysInMonth(dt.y, dt.m) THEN [dt EXCEPT !.d = dt.d + 1]
  ELSE IF dt.m < 12 THEN [y |-> dt.y, m |-> dt.m + 1, d |-> 1]
  ELSE [y |-> dt.y + 1, m |-> 1, d |-> 1]

RECURSIVE AddDays(_, _)
AddDays(dt, i) == IF i = 0 THEN dt ELSE AddDays(NextDay(dt), i - 1)

\* Date.parse of a date-only string: days since 1970-01-01 (UTC midnight)
DayNumber(dt) ==
  LET yy  == IF dt.m <= 2 THEN dt.y - 1 ELSE dt.y
      era == yy \div 400
      yoe == yy - era * 400
      mp  == IF dt.m > 2 THEN dt.m - 3 ELSE dt.m + 9
      doy == (153 * mp + 2) \div 5 + dt.d - 1
      doe == yoe * 365 + yoe \div 4 - yoe \div 100 + doy
  IN  era * 146097 + doe - 719468

----------------------------------------------------------------------------
(* Component state of ForecastSimplified and its environment *)

VARIABLES
  tzWest,        \* environment: the browser's time zone is west of UTC
  response,      \* environment: what postPowerData resolves to, { ok, data }
  forecastData,  \* useState: { daily, monthly, hasData, errorMessage }; a missing
                 \* hasData reads as FALSE and a missing errorMessage as ""
  loading,       \* useState: a fetch is in progress
  error,         \* useState: the error banner ("" when none)
  startDate,     \* useState: 'YYYY-MM-DD'
  endDate,       \* useState: 'YYYY-MM-DD'
  selectedState, \* useState: index into COUNTRIES_DATA[0].states
  props,         \* LineChart: the props of the component under study
  chart,         \* LineChart: what the last render returned
  outcome,       \* postSafe: how api.post settles
  result,        \* postSafe: what the call returned
  selectedFeature,  \* maps page, useState: null or { name, lat, lng }
  checkResult,      \* maps page, useState: null or the data of a check-date answer
  mapLoading,       \* maps page, useState loading: a check-date request is awaited
  loadingLocation,  \* maps page, useState: a reverse geocoding is awaited
  geocoding,        \* maps page: the clicks whose reverse geocoding has not answered
  checkRequest      \* maps page: the check-date request in flight, null when none

apiVars == <<outcome, result>>

mapVars == <<selectedFeature, checkResult, mapLoading, loadingLocation, geocoding, checkRequest>>

vars == <<tzWest, response, forecastData, loading, error, startDate, endDate, selectedState,
          props, chart, apiVars, mapVars>>

JsNull == [k |-> "null"]

\* postSafe has not been called
ApiIdle == outcome = JsNull /\ result = JsNull

\* the maps page as mounted
MapsMounted ==
  /\ selectedFeature = JsNull
  /\ checkResult = JsNull
  /\ mapLoading = FALSE
  /\ loadingLocation = FALSE
  /\ geocoding = {}
  /\ checkRequest = JsNull

chartVars == <<props, chart>>

pageVars == <<tzWest, response, forecastData, loading, error, startDate, endDate, selectedState>>

\* the day new Date() falls on (UTC calendar)
Today == [y |-> 2024, m |-> 1, d |-> 29]

\* the first two entries of COUNTRIES_DATA[0].states; each has one city
States == <<[name |-> "Andhra Pradesh", city |-> "Visakhapatnam"],
            [name |-> "Arunachal Pradesh", city |-> "Itanagar"]>>

\* new Date('YYYY-MM-DD') read back through getFullYear/getMonth/getDate
LocalDate(dt) == IF tzWest THEN PrevDay(dt) ELSE dt

\* `${date.getFullYear()}-${String(date.getMonth()+1).padStart(2,"0")}`
MonthKeyOf(dt) == <<LocalDate(dt).y, LocalDate(dt).m>>

\* getMonthName(month, year, true): abbreviated month and 2-digit year
getMonthName(month, year) == [mon |-> month, yy |-> year % 100]

----------------------------------------------------------------------------
(* processApiData *)

\* data[param].values[index]; undefined past the end of the array or when
\* the parameter has no entry in data
RawValue(data, param, index) ==
  IF param \in DOMAIN data /\ index <= Len(data[param].values)
  THEN data[param].values[index] ELSE Undef

\* the else branch storing 0 where it stores null
DailyFieldMissingAsZero(apiData_, param, index, isWind) ==
  IF param \notin apiData_.available THEN Undef
  ELSE LET v == RawValue(apiData_.data, param, index)
       IN  IF v.k = "undef" THEN Int2Num(0)
           ELSE IF isWind
                THEN (IF v.k = "null" THEN Int2Num(0) ELSE Mul(v, Num(36, 10)))
                ELSE v

\* one pass of available.forEach for one field of dailyObj
DailyField(apiData_, param, index, isWind) ==
  IF param \notin apiData_.available THEN Undef
  ELSE LET v == RawValue(apiData_.data, param, index)
       IN  IF v.k = "undef" THEN Null
           ELSE IF isWind
                THEN (IF v.k = "null" THEN Int2Num(0) ELSE Mul(v, Num(36, 10)))
                ELSE v

\* available.forEach(...) with available undefined: a TypeError, raised in
\* the first pass of dates.map
processApiDataThrows(apiData_) ==
  /\ apiData_.k # "null"
  /\ apiData_.hasData
  /\ "T2M" \in DOMAIN apiData_.data
  /\ Len(apiData_.data["T2M"].dates) > 0
  /\ "available" \notin DOMAIN apiData_

\* the callback of available.forEach sets temp for 'T2M', precip for
\* 'PRECTOT' and wind for 'WS2M'; any other code in available sets nothing
DailyOf(apiData_) ==
  LET dates == apiData_.data["T2M"].dates
  IN  [i \in 1..Len(dates) |->
         [date   |-> dates[i],
          temp   |-> DailyField(apiData_, "T2M", i, FALSE),
          precip |-> DailyField(apiData_, "PRECTOT", i, FALSE),
          wind   |-> DailyField(apiData_, "WS2M", i, TRUE)]]

NewMonth(key) ==
  [month |-> key, year |-> key[1],
   tempSum |-> Int2Num(0), tempCount |-> 0,
   precipSum |-> Int2Num(0), precipCount |-> 0,
   windSum |-> Int2Num(0), windCount |-> 0]

\* position of key in the insertion-ordered monthlyData, 0 when absent
RECURSIVE IndexOfMonth(_, _, _)
IndexOfMonth(acc, key, i) ==
  IF i > Len(acc) THEN 0
  ELSE IF acc[i].month = key THEN i ELSE IndexOfMonth(acc, key, i + 1)

\* the count of a field incremented whether or not the value is present
AccumulateDayCountsAbsent(acc, day) ==
  LET key  == MonthKeyOf(day.date)
      acc1 == IF IndexOfMonth(acc, key, 1) = 0 THEN Append(acc, NewMonth(key)) ELSE acc
      j    == IndexOfMonth(acc1, key, 1)
      m0   == acc1[j]
  IN  [acc1 EXCEPT ![j] =
         [m0 EXCEPT !.tempSum = Add(@, NullishZero(day.temp)), !.tempCount = @ + 1,
                    !.precipSum = Add(@, NullishZero(day.precip)), !.precipCount = @ + 1,
                    !.windSum = Add(@, NullishZero(day.wind)), !.windCount = @ + 1]]

AccumulateDay(acc, day) ==
  LET key  == MonthKeyOf(day.date)
      acc1 == IF IndexOfMonth(acc, key, 1) = 0 THEN Append(acc, NewMonth(key)) ELSE acc
      j    == IndexOfMonth(acc1, key, 1)
      m0   == acc1[j]
      m1   == IF Present(day.temp)
              THEN [m0 EXCEPT !.tempSum = Add(@, day.temp), !.tempCount = @ + 1] ELSE m0
      m2   == IF Present(day.precip)
              THEN [m1 EXCEPT !.precipSum = Add(@, day.precip), !.precipCount = @ + 1] ELSE m1
      m3   == IF Present(day.wind)
              THEN [m2 EXCEPT !.windSum = Add(@, day.wind), !.windCount = @ + 1] ELSE m2
  IN  [acc1 EXCEPT ![j] = m3]

RECURSIVE MonthlyData(_, _)
MonthlyData(daily, n) ==
  IF n = 0 THEN <<>> ELSE AccumulateDay(MonthlyData(daily, n - 1), daily[n])

Max3(a, b, c) ==
  LET ab == IF a >= b THEN a ELSE b IN IF ab >= c THEN ab ELSE c

MonthlyEntry(m) ==
  [month     |-> m.month,
   monthName |-> getMonthName(m.month[2], m.year),
   year      |-> m.year,
   meanTemp  |-> IF m.tempCount # 0 THEN Div(m.tempSum, Int2Num(m.tempCount)) ELSE Null,
   meanPrecip |-> IF m.precipCount # 0 THEN Div(m.precipSum, Int2Num(m.precipCount)) ELSE Null,
   meanWind  |-> IF m.windCount # 0 THEN Div(m.windSum, Int2Num(m.windCount)) ELSE Null,
   daysWithData |-> Max3(m.tempCount, m.precipCount, m.windCount)]

\* the comparator of the monthly sort is negative or zero: a stays before b
MonthlyNotAfter(a, b) ==
  IF a.year # b.year THEN a.year < b.year
  ELSE (a.month[1] < b.month[1]) \/ (a.month[1] = b.month[1] /\ a.month[2] <= b.month[2])

\* Array.prototype.sort is stable: insertion after the last element that
\* does not compare greater
RECURSIVE InsertMonthly(_, _)
InsertMonthly(sorted, x) ==
  IF sorted = <<>> THEN <<x>>
  ELSE IF MonthlyNotAfter(sorted[Len(sorted)], x) THEN Append(sorted, x)
  ELSE Append(InsertMonthly(SubSeq(sorted, 1, Len(sorted) - 1), x), sorted[Len(sorted)])

RECURSIVE SortMonthly(_, _)
SortMonthly(s, n) ==
  IF n = 0 THEN <<>> ELSE InsertMonthly(SortMonthly(s, n - 1), s[n])

EmptyResult(msg) == [daily |-> <<>>, monthly |-> <<>>, hasData |-> FALSE, errorMessage |-> msg]

processApiData(apiData_) ==
  IF apiData_.k = "null" \/ ~apiData_.hasData
  THEN EmptyResult("No data available for the selected parameters and date range.")
  ELSE IF "T2M" \in DOMAIN apiData_.data /\ Len(apiData_.data["T2M"].dates) > 0
       THEN LET daily == DailyOf(apiData_)
                md    == MonthlyData(daily, Len(daily))
                ms    == [i \in 1..Len(md) |-> MonthlyEntry(md[i])]
            IN  [daily |-> daily, monthly |-> SortMonthly(ms, Len(ms)),
                 hasData |-> TRUE, errorMessage |-> ""]
       ELSE EmptyResult("No temperature data available for the selected date range.")

----------------------------------------------------------------------------
(* Helpers on arrays of values *)

\* the filter left out: an absent entry stays in the array and counts as 0
FilterKeepsAbsent(s) == [i \in 1..Len(s) |-> NullishZero(s[i])]

\* arr.filter(x => x !== undefined && x !== null)
RECURSIVE FilterPresent(_)
FilterPresent(s) ==
  IF s = <<>> THEN <<>>
  ELSE IF Present(Head(s)) THEN <<Head(s)>> \o FilterPresent(Tail(s))
  ELSE FilterPresent(Tail(s))

\* arr.reduce((a, b) => a + b, 0)
RECURSIVE SumSeq(_)
SumSeq(s) == IF s = <<>> THEN Int2Num(0) ELSE Add(Head(s), SumSeq(Tail(s)))

\* Math.max(...arr) and Math.min(...arr) of a non-empty array of numbers
RECURSIVE MaxSeq(_)
MaxSeq(s) ==
  IF Len(s) = 1 THEN s[1]
  ELSE LET r == MaxSeq(Tail(s)) IN IF Less(r, Head(s)) THEN Head(s) ELSE r

RECURSIVE MinSeq(_)
MinSeq(s) ==
  IF Len(s) = 1 THEN s[1]
  ELSE LET r == MinSeq(Tail(s)) IN IF Less(Head(s), r) THEN Head(s) ELSE r

Column(daily, field) ==
  [i \in 1..Len(daily) |->
     IF field = "temp" THEN daily[i].temp
     ELSE IF field = "precip" THEN daily[i].precip ELSE daily[i].wind]

----------------------------------------------------------------------------
(* Values derived from forecastData on every render *)

\* computed arrays for the daily charts
temps == [i \in 1..Len(forecastData.daily) |-> NullishZero(forecastData.daily[i].temp)]

precips == [i \in 1..Len(forecastData.daily) |-> NullishZero(forecastData.daily[i].precip)]

winds == [i \in 1..Len(forecastData.daily) |-> NullishZero(forecastData.daily[i].wind)]

\* the Max / Min / Avg line under a daily chart
SmallStats(series) ==
  LET f == FilterPresent(series)
  IN  [max |-> IF Len(f) > 0 THEN MaxSeq(f) ELSE Int2Num(0),
       min |-> IF Len(f) > 0 THEN MinSeq(f) ELSE Int2Num(0),
       avg |-> toFixed(Div(SumSeq(f), Int2Num(IF Len(f) > 1 THEN Len(f) ELSE 1)), 1)]

\* countInc / inc of one day: the monthly chart and the total use the
\* same three tests
ExtremeInc(day) ==
    (IF day.precip.k # "undef" /\ JsGt(day.precip, Int2Num(10)) THEN 1 ELSE 0)
  + (IF day.temp.k # "undef" /\ (JsGt(day.temp, Int2Num(30)) \/ JsLt(day.temp, Int2Num(5)))
     THEN 1 ELSE 0)
  + (IF day.wind.k # "undef" /\ JsGt(day.wind, Int2Num(20)) THEN 1 ELSE 0)

\* the pass over daily adding 1 for a day that meets any condition
RECURSIVE ExtremeByMonthCountsDays(_, _, _)
ExtremeByMonthCountsDays(daily, key, n) ==
  IF n = 0 THEN 0
  ELSE ExtremeByMonthCountsDays(daily, key, n - 1)
       + (IF MonthKeyOf(daily[n].date) = key /\ ExtremeInc(daily[n]) > 0 THEN 1 ELSE 0)

\* extremeByMonth.get(key) || 0 after the pass over daily
RECURSIVE ExtremeByMonth(_, _, _)
ExtremeByMonth(daily, key, n) ==
  IF n = 0 THEN 0
  ELSE ExtremeByMonth(daily, key, n - 1)
       + (IF MonthKeyOf(daily[n].date) = key THEN ExtremeInc(daily[n]) ELSE 0)

\* the last entry of monthlyArray with this key wins in the Map
RECURSIVE MeanByMonth(_, _, _, _)
MeanByMonth(monthly, key, field, n) ==
  IF n = 0 THEN Undef
  ELSE IF monthly[n].month = key
       THEN (LET v == IF field = "temp" THEN monthly[n].meanTemp
                      ELSE IF field = "precip" THEN monthly[n].meanPrecip
                      ELSE monthly[n].meanWind
             IN  IF Present(v) THEN v ELSE Null)
       ELSE MeanByMonth(monthly, key, field, n - 1)

\* has(key) && get(key) !== null ? get(key) : 0
ChartMean(monthly, key, field) ==
  LET v == MeanByMonth(monthly, key, field, Len(monthly))
  IN  IF v.k # "undef" /\ v.k # "null" THEN v ELSE Int2Num(0)

\* monthlyArray is empty only when daily is (processApiData and the sample
\* data both fill it), so the months are always taken from monthlyArray
getHistoricalData ==
  IF Len(forecastData.daily) = 0
  THEN [tempData |-> <<>>, precipData |-> <<>>, windData |-> <<>>,
        extremeEvents |-> <<>>, orderedMonths |-> <<>>, monthLabels |-> <<>>]
  ELSE LET monthly == forecastData.monthly
           daily   == forecastData.daily
           orderedMonths == [i \in 1..Len(monthly) |-> monthly[i].month]
       IN  [tempData   |-> [i \in 1..Len(orderedMonths) |-> ChartMean(monthly, orderedMonths[i], "temp")],
            precipData |-> [i \in 1..Len(orderedMonths) |-> ChartMean(monthly, orderedMonths[i], "precip")],
            windData   |-> [i \in 1..Len(orderedMonths) |-> ChartMean(monthly, orderedMonths[i], "wind")],
            extremeEvents |-> [i \in 1..Len(orderedMonths) |->
                                 ExtremeByMonth(daily, orderedMonths[i], Len(daily))],
            orderedMonths |-> orderedMonths,
            monthLabels |-> [i \in 1..Len(orderedMonths) |->
                               getMonthName(orderedMonths[i][2], orderedMonths[i][1])]]

\* the useMemo body as a function of its dependency forecastData.daily
dataStatisticsOf(daily) ==
  IF Len(daily) = 0
  THEN [avgTemp |-> Num(234, 10), totalRainfall |-> Int2Num(847),
        avgWind |-> NA, totalExtreme |-> 0]
  ELSE LET ts == FilterPresent(Column(daily, "temp"))
           ps == FilterPresent(Column(daily, "precip"))
           ws == FilterPresent(Column(daily, "wind"))
           RECURSIVE Total(_)
           Total(n) == IF n = 0 THEN 0 ELSE Total(n - 1) + ExtremeInc(daily[n])
       IN  [avgTemp |-> IF Len(ts) > 0 THEN toFixed(Div(SumSeq(ts), Int2Num(Len(ts))), 1) ELSE NA,
            totalRainfall |-> IF Len(ps) > 0 THEN toFixed(SumSeq(ps), 0) ELSE Int2Num(0),
            avgWind |-> IF Len(ws) > 0 THEN toFixed(Div(SumSeq(ws), Int2Num(Len(ws))), 1) ELSE NA,
            totalExtreme |-> Total(Len(daily))]

dataStatistics == dataStatisticsOf(forecastData.daily)

\* WeatherInsights({ forecast: forecastData.daily }): the figures of the
\* three cards; the component renders nothing for an empty forecast
WeatherInsights ==
  IF Len(forecastData.daily) = 0 THEN [rendered |-> FALSE]
  ELSE LET daily == forecastData.daily
           ts == FilterPresent(Column(daily, "temp"))
           ps == FilterPresent(Column(daily, "precip"))
           ws == FilterPresent(Column(daily, "wind"))
       IN  [rendered |-> TRUE,
            avgTemp |-> IF Len(ts) > 0 THEN toFixed(Div(SumSeq(ts), Int2Num(Len(ts))), 1) ELSE NA,
            maxTemp |-> IF Len(ts) > 0 THEN toFixed(MaxSeq(ts), 1) ELSE NA,
            minTemp |-> IF Len(ts) > 0 THEN toFixed(MinSeq(ts), 1) ELSE NA,
            totalPrecip |-> toFixed(SumSeq(ps), 1),
            maxPrecip |-> IF Len(ps) > 0 THEN toFixed(MaxSeq(ps), 1) ELSE Int2Num(0),
            avgWind |-> IF Len(ws) > 0 THEN toFixed(Div(SumSeq(ws), Int2Num(Len(ws))), 1) ELSE NA,
            maxWind |-> IF Len(ws) > 0 THEN toFixed(MaxSeq(ws), 1) ELSE NA]

----------------------------------------------------------------------------
(* recentExtremeEvents *)

Location == [city |-> States[selectedState].city, state |-> States[selectedState].name]

Event(type, day, value) ==
  [type |-> type, location |-> Location, date |-> day.date, value |-> toFixed(value, 1)]

\* the four tests chained with else: at most one event per record
DayEventsFirstMatchOnly(day) ==
  IF day.temp.k # "undef" /\ JsGt(day.temp, Int2Num(35))
  THEN <<Event("Extreme Heat", day, day.temp)>>
  ELSE IF day.temp.k # "undef" /\ JsLt(day.temp, Int2Num(0))
  THEN <<Event("Extreme Cold", day, day.temp)>>
  ELSE IF day.precip.k # "undef" /\ JsGt(day.precip, Int2Num(25))
  THEN <<Event("Heavy Rain", day, day.precip)>>
  ELSE IF day.wind.k # "undef" /\ JsGt(day.wind, Int2Num(20))
  THEN <<Event("Strong Winds", day, day.wind)>>
  ELSE <<>>

\* the events one pass of the forEach body pushes, in push order
DayEvents(day) ==
    (IF day.temp.k # "undef" /\ JsGt(day.temp, Int2Num(35))
     THEN <<Event("Extreme Heat", day, day.temp)>>
     ELSE IF day.temp.k # "undef" /\ JsLt(day.temp, Int2Num(0))
          THEN <<Event("Extreme Cold", day, day.temp)>> ELSE <<>>)
 \o (IF day.precip.k # "undef" /\ JsGt(day.precip, Int2Num(25))
     THEN <<Event("Heavy Rain", day, day.precip)>> ELSE <<>>)
 \o (IF day.wind.k # "undef" /\ JsGt(day.wind, Int2Num(20))
     THEN <<Event("Strong Winds", day, day.wind)>> ELSE <<>>)

RECURSIVE PushedEvents(_, _)
PushedEvents(daily, n) ==
  IF n = 0 THEN <<>> ELSE PushedEvents(daily, n - 1) \o DayEvents(daily[n])

\* the operands of the subtraction swapped: oldest first
EventNotAfterAscending(a, b) == DayNumber(a.date) <= DayNumber(b.date)

\* new Date(b.date) - new Date(a.date) <= 0: a stays before b
EventNotAfter(a, b) == DayNumber(b.date) <= DayNumber(a.date)

RECURSIVE InsertEvent(_, _)
InsertEvent(sorted, x) ==
  IF sorted = <<>> THEN <<x>>
  ELSE IF EventNotAfter(sorted[Len(sorted)], x) THEN Append(sorted, x)
  ELSE Append(InsertEvent(SubSeq(sorted, 1, Len(sorted) - 1), x), sorted[Len(sorted)])

RECURSIVE SortEvents(_, _)
SortEvents(s, n) ==
  IF n = 0 THEN <<>> ELSE InsertEvent(SortEvents(s, n - 1), s[n])

PlaceholderEvent ==
  [type |-> "Extreme Heat", location |-> [city |-> "Phoenix", state |-> "AZ"],
   date |-> [y |-> 2024, m |-> 3, d |-> 16], value |-> Int2Num(42)]

\* the useMemo body as a function of its dependency forecastData.daily
\* (selectedCity and selectedState enter through Location)
recentExtremeEventsOf(daily) ==
  IF Len(daily) = 0 THEN <<PlaceholderEvent>>
  ELSE LET ev == PushedEvents(daily, Len(daily))
       IN  SortEvents(ev, Len(ev))

recentExtremeEvents == recentExtremeEventsOf(forecastData.daily)

----------------------------------------------------------------------------
(* Fallback sample data *)

\* d.setMonth(d.getMonth() - i): the day of month is kept, and a day past
\* the end of the target month runs over into the next month
MonthsBack(dt, i) ==
  LET idx == dt.y * 12 + (dt.m - 1) - i
      y   == idx \div 12
      m   == (idx % 12) + 1
  IN  IF dt.d <= DaysInMonth(y, m) THEN <<y, m>>
      ELSE IF m = 12 THEN <<y + 1, 1>> ELSE <<y, m + 1>>

\* Math.round(20 + Math.sin(i/7 * Math.PI) * 6) for i = 0..6
SampleTemps == <<20, 23, 25, 26, 26, 25, 23>>

\* Math.random() draws: precipitation in [0, 3) mm, wind in [8, 14] km/h;
\* within one call the draws of the odd days agree and so do those of the
\* even days
SamplePrecips == {Int2Num(0), Num(25, 10)}

SampleWinds == {Int2Num(8), Int2Num(14)}

\* one draw of (meanTemp, meanPrecip, meanWind), used for the six months
SampleMeans == {<<Int2Num(15), Int2Num(0), Int2Num(6)>>,
                <<Int2Num(25), Num(799, 10), Int2Num(12)>>}

getSample7(p1, p2, w1, w2) ==
  [i \in 1..7 |->
     [date   |-> AddDays(Today, i - 1),
      temp   |-> Int2Num(SampleTemps[i]),
      precip |-> IF i % 2 = 1 THEN p1 ELSE p2,
      wind   |-> IF i % 2 = 1 THEN w1 ELSE w2]]

getSample6Months(means) ==
  [j \in 1..6 |->
     [month |-> MonthsBack(Today, 6 - j),
      meanTemp |-> means[1], meanPrecip |-> means[2], meanWind |-> means[3]]]

----------------------------------------------------------------------------
(* LineChart *)

NaN == [k |-> "nan", n |-> 0, d |-> 1]

Sub(a, b) == Num(a.n * b.d - b.n * a.d, a.d * b.d)

Max2(a, b) == IF a >= b THEN a ELSE b

\* d !== null && d !== undefined && !isNaN(d)
IsValid(v) == v.k # "null" /\ v.k # "undef" /\ v.k # "nan"

\* Math.max(...validData) and Math.min(...validData); Undef stands for the
\* case of no valid value, in which the component has returned before
MaxValid(data) ==
  LET valid == {data[i] : i \in {j \in 1..Len(data) : IsValid(data[j])}}
  IN  IF valid = {} THEN Undef
      ELSE CHOOSE v \in valid : \A w \in valid : ~Less(v, w)

MinValid(data) ==
  LET valid == {data[i] : i \in {j \in 1..Len(data) : IsValid(data[j])}}
  IN  IF valid = {} THEN Undef
      ELSE CHOOSE v \in valid : \A w \in valid : ~Less(w, v)

\* seq.indexOf(x): the first 0-based position holding x, -1 when there is none
IndexOf(seq, x) ==
  IF \E j \in 1..Len(seq) : seq[j] = x
  THEN (CHOOSE j \in 1..Len(seq) : seq[j] = x /\ \A h \in 1..(j - 1) : seq[h] # x) - 1
  ELSE -1

\* [...new Set(seq)]: the first occurrence of each element, in order
RECURSIVE Unique(_)
Unique(seq) ==
  IF seq = <<>> THEN <<>>
  ELSE LET r == Unique(SubSeq(seq, 1, Len(seq) - 1))
           x == seq[Len(seq)]
       IN  IF \E j \in 1..Len(r) : r[j] = x THEN r ELSE Append(r, x)

\* seq.sort((a, b) => a - b)
RECURSIVE InsertNumber(_, _)
InsertNumber(sorted, x) ==
  IF sorted = <<>> THEN <<x>>
  ELSE IF sorted[Len(sorted)] <= x THEN Append(sorted, x)
  ELSE Append(InsertNumber(SubSeq(sorted, 1, Len(sorted) - 1), x), sorted[Len(sorted)])

RECURSIVE SortNumbers(_, _)
SortNumbers(seq, n) ==
  IF n = 0 THEN <<>> ELSE InsertNumber(SortNumbers(seq, n - 1), seq[n])

\* the threshold lowered to 50
isLargeDatasetOver50(data) == Len(data) > 50

isLargeDataset(data) == Len(data) > 100

Width(data, compact) == IF compact THEN 300 ELSE Max2(300, Len(data) * 60)

sampleRate(data) == Max2(1, Len(data) \div 50)

\* the extremes left out of the set
importantIndicesEndsOnly(data) == Unique(<<0, Len(data) - 1>>)

importantIndices(data) ==
  LET maxIndex == IndexOf(data, MaxValid(data))
      minIndex == IndexOf(data, MinValid(data))
  IN  Unique(<<0, Len(data) - 1, maxIndex, minIndex>>)

\* for (let i = start; i < length; i += rate) if (!important.has(i)) push(i)
RECURSIVE sampledIndices(_, _, _, _)
sampledIndices(start, length, rate, important) ==
  IF start >= length THEN <<>>
  ELSE (IF \E j \in 1..Len(important) : important[j] = start THEN <<>> ELSE <<start>>)
       \o sampledIndices(start + rate, length, rate, important)

pointIndices(data, compact) ==
  IF compact /\ isLargeDataset(data)
  THEN LET important == importantIndices(data)
           all == important \o sampledIndices(0, Len(data), sampleRate(data), important)
       IN  SortNumbers(all, Len(all))
  ELSE [j \in 1..Len(data) |-> j - 1]

\* (i / (totalPoints || 1)) * (width - 24) + 12 with the denominator one
\* too large
XOfOverCount(i, totalPoints, width) ==
  Add(Mul(Div(Int2Num(i), Int2Num(totalPoints + 1)), Int2Num(width - 24)), Int2Num(12))

\* (i / (totalPoints || 1)) * (width - 24) + 12
XOf(i, totalPoints, width) ==
  Add(Mul(Div(Int2Num(i), Int2Num(IF totalPoints = 0 THEN 1 ELSE totalPoints)),
          Int2Num(width - 24)), Int2Num(12))

\* height - 30 - ((value - min) / range) * (height - 42)
YOf(value, min, range, height) ==
  Sub(Int2Num(height - 30), Mul(Div(Sub(value, min), range), Int2Num(height - 42)))

\* an absent value drawn as the number 0
PointOfAbsentAsZero(p, indices, dataIndex) ==
  LET data   == p.data
      v      == data[dataIndex + 1]
      value  == IF IsValid(v) THEN v ELSE Int2Num(0)
      max    == MaxValid(data)
      min    == MinValid(data)
      range  == IF Less(Int2Num(1), Sub(max, min)) THEN Sub(max, min) ELSE Int2Num(1)
      large  == p.compact /\ isLargeDataset(data)
      i      == IF large THEN IndexOf(indices, dataIndex) ELSE dataIndex
      totalPoints == IF large THEN Len(indices) - 1 ELSE Len(data) - 1
  IN  <<[index |-> dataIndex,
         x |-> XOf(i, totalPoints, Width(data, p.compact)),
         y |-> YOf(value, min, range, p.height)]>>

\* one pass of the map over pointIndices: <<>> stands for the null that the
\* filter removes
PointOf(p, indices, dataIndex) ==
  LET data   == p.data
      value  == data[dataIndex + 1]
      max    == MaxValid(data)
      min    == MinValid(data)
      range  == IF Less(Int2Num(1), Sub(max, min)) THEN Sub(max, min) ELSE Int2Num(1)
      large  == p.compact /\ isLargeDataset(data)
      i      == IF large THEN IndexOf(indices, dataIndex) ELSE dataIndex
      totalPoints == IF large THEN Len(indices) - 1 ELSE Len(data) - 1
  IN  IF ~IsValid(value) THEN <<>>
      ELSE <<[index |-> dataIndex,
              x |-> XOf(i, totalPoints, Width(data, p.compact)),
              y |-> YOf(value, min, range, p.height)]>>

\* pointIndices.map(...).filter(point => point !== null) over the
\* positions lo..hi, in order
RECURSIVE Points(_, _, _, _)
Points(p, indices, lo, hi) ==
  IF lo > hi THEN <<>>
  ELSE IF lo = hi THEN PointOf(p, indices, indices[lo])
  ELSE LET mid == (lo + hi) \div 2
       IN  Points(p, indices, lo, mid) \o Points(p, indices, mid + 1, hi)

\* a label is the sequence of its words: label.includes(' ') is a second
\* word, label.split(' ')[1] that word; -1 stands for null
LabelYear(label) == IF Len(label) > 1 THEN label[2] ELSE -1

\* the indices labels.forEach pushes to yearChanges: a label with a year
\* other than currentYear, which is the year of the last label before it
\* that had one, or null
yearChanges(labels) ==
  LET HasYear(i) == LabelYear(labels[i]) # -1
      currentYear(i) ==
        LET before == {j \in 1..(i - 1) : HasYear(j)}
        IN  IF before = {} THEN -1
            ELSE LabelYear(labels[CHOOSE j \in before : \A h \in before : h <= j])
      changes == {i \in 1..Len(labels) : HasYear(i) /\ LabelYear(labels[i]) # currentYear(i)}
  IN  [j \in 1..Cardinality(changes) |->
         (CHOOSE i \in changes : Cardinality({h \in changes : h < i}) = j - 1) - 1]

getAxisLabelPositions(p, indices) ==
  LET data   == p.data
      labels == p.labels
      large  == p.compact /\ isLargeDataset(data)
      totalPoints == IF large THEN Len(indices) - 1 ELSE Len(data) - 1
      Position(idx) ==
        [x |-> XOf(IF large THEN IndexOf(indices, idx) ELSE idx, totalPoints,
                   Width(data, p.compact)),
         index |-> idx]
  IN  IF Len(labels) = 0 THEN <<>>
      ELSE IF p.showYearLabels /\ Len(labels) > 12
      THEN LET strategicIndices ==
                 <<0>> \o yearChanges(labels) \o <<Len(labels) - 1>>
               u == Unique(strategicIndices)
               uniqueIndices == SortNumbers(u, Len(u))
           IN  [j \in 1..Len(uniqueIndices) |-> Position(uniqueIndices[j])]
      ELSE LET idxs == <<0, (Len(labels) - 1) \div 2, Len(labels) - 1>>
           IN  [j \in 1..3 |-> Position(idxs[j])]

\* the element LineChart returns: the two early returns, else the svg with
\* the polyline points, the data point circles and the axis labels
LineChart(p) ==
  IF Len(p.data) = 0 THEN [kind |-> "No data"]
  ELSE IF MaxValid(p.data).k = "undef" THEN [kind |-> "No valid data"]
  ELSE LET indices == pointIndices(p.data, p.compact)
           points  == Points(p, indices, 1, Len(indices))
       IN  [kind |-> "svg",
            width |-> Width(p.data, p.compact),
            pointIndices |-> indices,
            points |-> points,
            circles |-> IF ~p.compact \/ ~isLargeDataset(p.data) THEN points ELSE <<>>,
            axisLabelPositions |-> getAxisLabelPositions(p, indices)]

NotRendered == [kind |-> "none"]

\* the page outside a chart study: no chart props
NoProps == [data |-> <<>>, compact |-> FALSE, labels |-> <<>>, showYearLabels |-> FALSE,
            height |-> 140]

----------------------------------------------------------------------------
(* The responses of the backend *)

MaxDays == 2

SeriesLen == 3

Dates == {[y |-> 2023, m |-> 12, d |-> 31], [y |-> 2024, m |-> 1, d |-> 1],
          [y |-> 2024, m |-> 1, d |-> 15], [y |-> 2024, m |-> 2, d |-> 1]}

SeriesDates == <<[y |-> 2024, m |-> 1, d |-> 30], [y |-> 2024, m |-> 1, d |-> 31],
                 [y |-> 2024, m |-> 2, d |-> 1], [y |-> 2024, m |-> 2, d |-> 2],
                 [y |-> 2024, m |-> 2, d |-> 3]>>

\* one day of raw values <<T2M, PRECTOT, WS2M>>: degrees C, mm/day and m/s,
\* the wind given here by the km/h figure it converts to
RawDay(t, p, w) == <<Int2Num(t), Int2Num(p), Num(w * 10, 36)>>

NullDay == <<Null, Null, Null>>

DayValues == {RawDay(36, 0, 5), RawDay(-2, 30, 25), RawDay(36, 30, 25),
              RawDay(32, 15, 5), RawDay(0, 0, 0), RawDay(5, 5, 5), NullDay}

SeriesValues == {RawDay(5, 5, 5), RawDay(15, 15, 15), NullDay}

Shapes == {"full", "partial", "short", "corr"}

\* sequences of n distinct dates
DateSeqs(n) == {s \in [1..n -> Dates] : \A i, j \in 1..n : i # j => s[i] # s[j]}

Shorter(s) == IF Len(s) = 0 THEN s ELSE SubSeq(s, 1, Len(s) - 1)

\* "full": every parameter listed and filled; "partial": PRECTOT is not
\* listed in available and WS2M is listed but has no entry in data;
\* "short": the T2M and WS2M values arrays lack their last element;
\* "corr": the precipitation is listed and filled under PRECTOTCORR
Payload(dates, days, shape) ==
  LET n  == Len(dates)
      t  == [i \in 1..n |-> days[i][1]]
      pr == [i \in 1..n |-> days[i][2]]
      w  == [i \in 1..n |-> days[i][3]]
  IN  [k |-> "obj", hasData |-> TRUE,
       available |-> IF shape = "partial" THEN {"T2M", "WS2M"}
                     ELSE IF shape = "corr" THEN {"T2M", "PRECTOTCORR", "WS2M"}
                     ELSE {"T2M", "PRECTOT", "WS2M"},
       data |-> IF shape = "corr"
                THEN [T2M |-> [dates |-> dates, values |-> t],
                      PRECTOTCORR |-> [dates |-> dates, values |-> pr],
                      WS2M |-> [dates |-> dates, values |-> w]]
                ELSE IF shape = "partial"
                THEN [T2M |-> [dates |-> dates, values |-> t],
                      PRECTOT |-> [dates |-> dates, values |-> pr]]
                ELSE IF shape = "short"
                THEN [T2M |-> [dates |-> dates, values |-> Shorter(t)],
                      PRECTOT |-> [dates |-> dates, values |-> pr],
                      WS2M |-> [dates |-> dates, values |-> Shorter(w)]]
                ELSE [T2M |-> [dates |-> dates, values |-> t],
                      PRECTOT |-> [dates |-> dates, values |-> pr],
                      WS2M |-> [dates |-> dates, values |-> w]]]

\* up to MaxDays days in any order, every parameter listed and filled
GeneralPayloads ==
  UNION {{Payload(ds, vs, "full") : ds \in DateSeqs(n), vs \in [1..n -> DayValues]}
         : n \in 0..MaxDays}

\* up to SeriesLen consecutive days with present and absent values, in
\* every shape
SeriesPayloads ==
  UNION {{Payload(SubSeq(SeriesDates, 1, n), vs, sh) : vs \in [1..n -> SeriesValues], sh \in Shapes}
         : n \in 1..SeriesLen}

NoData == [k |-> "obj", hasData |-> FALSE]

NullPayload == [k |-> "null"]

\* a body with data but without the available list, for no day and one day
NoAvailable(dates, days) ==
  [k |-> "obj", hasData |-> TRUE,
   data |-> [T2M |-> [dates |-> dates, values |-> [i \in 1..Len(dates) |-> days[i][1]]],
             PRECTOT |-> [dates |-> dates, values |-> [i \in 1..Len(dates) |-> days[i][2]]],
             WS2M |-> [dates |-> dates, values |-> [i \in 1..Len(dates) |-> days[i][3]]]]]

DegeneratePayloads ==
  {NoData, NullPayload, NoAvailable(<<>>, <<>>)}
  \cup {NoAvailable(<<SeriesDates[1]>>, <<v>>) : v \in SeriesValues}

Responses ==
  {[ok |-> TRUE, data |-> p] : p \in GeneralPayloads \cup SeriesPayloads \cup DegeneratePayloads}
  \cup {[ok |-> FALSE, data |-> NullPayload]}

----------------------------------------------------------------------------
(* Handlers *)

Init ==
  /\ tzWest \in BOOLEAN
  /\ response \in Responses
  /\ forecastData = [daily |-> <<>>, monthly |-> <<>>, hasData |-> FALSE, errorMessage |-> ""]
  /\ loading = FALSE
  /\ error = ""
  /\ endDate = Today
  /\ startDate = [Today EXCEPT !.y = @ - 1]
  /\ selectedState = 1
  /\ props = NoProps
  /\ chart = NotRendered
  /\ ApiIdle
  /\ MapsMounted

\* "" when the range is accepted, else the message passed to setError
validateDateRange ==
  LET start == DayNumber(startDate)
      end   == DayNumber(endDate)
      diffDays == Abs(end - start)
  IN  IF end < start THEN "End date cannot be before start date"
      ELSE IF diffDays < 360 THEN "Date range cannot exceed 1 year"
      ELSE ""

\* fetchData that asks the server before it validates the range
FetchDataWithoutValidation ==
  /\ ~loading
  /\ error' = ""
  /\ loading' = TRUE
  /\ UNCHANGED <<tzWest, response, forecastData, startDate, endDate, selectedState, props, chart, apiVars, mapVars>>

\* fetchData up to its await: the button is disabled while loading
FetchData ==
  /\ ~loading
  /\ IF validateDateRange # ""
     THEN /\ error' = validateDateRange
          /\ loading' = FALSE
     ELSE /\ error' = ""
          /\ loading' = TRUE
  /\ UNCHANGED <<tzWest, response, forecastData, startDate, endDate, selectedState, props, chart, apiVars, mapVars>>

\* the catch block of fetchData: the error banner and the sample data
CatchBlock ==
  /\ \E p1 \in SamplePrecips, p2 \in SamplePrecips, w1 \in SampleWinds,
        w2 \in SampleWinds, means \in SampleMeans :
       forecastData' = [daily |-> getSample7(p1, p2, w1, w2),
                        monthly |-> getSample6Months(means),
                        hasData |-> FALSE, errorMessage |-> ""]
  /\ error' = "Failed to fetch weather data. Please try again later."

\* the throw path of fetchData without its finally block
ResponseOkWithoutFinally ==
  /\ loading
  /\ response.ok
  /\ IF processApiDataThrows(response.data)
     THEN CatchBlock /\ UNCHANGED loading
     ELSE /\ forecastData' = processApiData(response.data)
          /\ loading' = FALSE
          /\ UNCHANGED error
  /\ UNCHANGED <<tzWest, response, startDate, endDate, selectedState, props, chart, apiVars, mapVars>>

\* the result built on top of the records of the previous call
ResponseOkKeepsRecords ==
  /\ loading
  /\ response.ok
  /\ IF processApiDataThrows(response.data)
     THEN CatchBlock
     ELSE /\ forecastData' =
               [processApiData(response.data) EXCEPT !.daily = forecastData.daily \o @]
          /\ UNCHANGED error
  /\ loading' = FALSE
  /\ UNCHANGED <<tzWest, response, startDate, endDate, selectedState, props, chart, apiVars, mapVars>>

\* fetchData after the await, response.ok: processApiData runs inside the
\* try, so an exception it raises ends in the catch block
ResponseOk ==
  /\ loading
  /\ response.ok
  /\ IF processApiDataThrows(response.data)
     THEN CatchBlock
     ELSE /\ forecastData' = processApiData(response.data)
          /\ UNCHANGED error
  /\ loading' = FALSE
  /\ UNCHANGED <<tzWest, response, startDate, endDate, selectedState, props, chart, apiVars, mapVars>>

\* fetchData after the await, !response.ok: the throw of line 656
ResponseError ==
  /\ loading
  /\ ~response.ok
  /\ CatchBlock
  /\ loading' = FALSE
  /\ UNCHANGED <<tzWest, response, startDate, endDate, selectedState, props, chart, apiVars, mapVars>>

handleStateChange(s) ==
  /\ selectedState' = s
  /\ UNCHANGED <<tzWest, response, forecastData, loading, error, startDate, endDate, props, chart, apiVars, mapVars>>

Next ==
  \/ FetchData
  \/ ResponseOk
  \/ ResponseError
  \/ \E s \in 1..Len(States) : handleStateChange(s)

Spec == Init /\ [][Next]_vars

----------------------------------------------------------------------------
(* LineChart as a function of its props *)

\* lengths on both sides of the large-dataset threshold and of the strides
ChartLens == {1, 2, 3, 50, 99, 100, 101, 150, 200}

\* a level series of 10 with its maximum 30 at position a, its minimum -5
\* at position b and an absent value at position c (positions from 1; a
\* position outside 1..n leaves the series level there)
Series(n, a, b, c, absent) ==
  [i \in 1..n |-> IF i = c THEN absent
                  ELSE IF i = a THEN Int2Num(30)
                  ELSE IF i = b THEN Int2Num(-5) ELSE Int2Num(10)]

Gaps(n) == {<<0, Null>>, <<1, Null>>, <<2, Undef>>, <<4, Null>>, <<n, NaN>>}

DataPropsOf(n) ==
  {[data |-> Series(n, a, b, g[1], g[2]), compact |-> c, labels |-> <<>>,
    showYearLabels |-> FALSE, height |-> 140]
     : a \in {1, 2, n}, b \in {2, 4, n}, g \in Gaps(n), c \in BOOLEAN}

DataProps ==
  UNION {DataPropsOf(n) : n \in ChartLens}
  \cup {[data |-> d, compact |-> FALSE, labels |-> <<>>, showYearLabels |-> FALSE,
         height |-> 140] : d \in {<<>>, <<Null, Undef, NaN>>}}

LabelLens == {1, 2, 3, 12, 13, 14, 25, 101}

\* getMonthName(m, y, true) for n consecutive months from month first of 2023
MonthLabels(n, first) ==
  [i \in 1..n |->
     LET idx == 2023 * 12 + (first - 1) + (i - 1)
         l   == getMonthName((idx % 12) + 1, idx \div 12)
     IN  <<l.mon, l.yy>>]

\* toLocaleString('default', { month: 'short', day: '2-digit' }) in a
\* locale that writes the month first ('Jan 30'): n consecutive day labels,
\* the months taken as 30 days long
DayLabels(n, first) ==
  [i \in 1..n |-> <<(((first - 1) + ((27 + i) \div 30)) % 12) + 1, ((27 + i) % 30) + 1>>]

\* labels of a single word
PlainLabels(n, first) == [i \in 1..n |-> <<first + i>>]

LabelProps ==
  {[data |-> [i \in 1..n |-> Int2Num(10 + (i % 3))], compact |-> c,
    labels |-> IF kind = "month" THEN MonthLabels(n, first)
               ELSE IF kind = "day" THEN DayLabels(n, first) ELSE PlainLabels(n, first),
    showYearLabels |-> y, height |-> 180]
     : n \in LabelLens, kind \in {"month", "day", "plain"}, first \in {1, 6, 12},
       y \in BOOLEAN, c \in BOOLEAN}

ChartProps == DataProps \cup LabelProps

ChartInit ==
  /\ tzWest = FALSE
  /\ response = [ok |-> TRUE, data |-> NoData]
  /\ forecastData = [daily |-> <<>>, monthly |-> <<>>, hasData |-> FALSE, errorMessage |-> ""]
  /\ loading = FALSE
  /\ error = ""
  /\ endDate = Today
  /\ startDate = [Today EXCEPT !.y = @ - 1]
  /\ selectedState = 1
  /\ props \in ChartProps
  /\ chart = NotRendered
  /\ ApiIdle
  /\ MapsMounted

\* one render of the component with the props it was given
LineChartRender ==
  /\ chart' = LineChart(props)
  /\ UNCHANGED <<pageVars, props, apiVars, mapVars>>

ChartNext == LineChartRender

ChartSpec == ChartInit /\ [][ChartNext]_vars

----------------------------------------------------------------------------
(* Vocabulary of the properties, computed from the daily series alone *)

Daily == forecastData.daily

Monthly == forecastData.monthly

Days == 1..Len(Daily)

FieldOf(i, field) == Column(Daily, field)[i]

Fields == {"temp", "precip", "wind"}

\* the (year, month) written in the date string of a record
CalendarMonth(i) == <<Daily[i].date.y, Daily[i].date.m>>

\* the records processApiData files under a month key
GroupOf(key) == {i \in Days : <<LocalDate(Daily[i].date).y, LocalDate(Daily[i].date).m>> = key}

PresentIn(S, field) == {i \in S : IsNum(FieldOf(i, field))}

RECURSIVE SumOver(_, _)
SumOver(S, field) ==
  IF S = {} THEN Int2Num(0)
  ELSE LET i == CHOOSE x \in S : TRUE
       IN  Add(FieldOf(i, field), SumOver(S \ {i}, field))

\* v is the number sum / count
IsQuotient(v, sum, count) == IsNum(v) /\ v.n * sum.d * count = sum.n * v.d

IsZero(v) == IsNum(v) /\ v.n = 0

\* a monthly extreme condition holds for record i
MonthlyExtreme(i) ==
  \/ IsNum(Daily[i].precip) /\ Less(Int2Num(10), Daily[i].precip)
  \/ IsNum(Daily[i].temp) /\ (Less(Int2Num(30), Daily[i].temp) \/ Less(Daily[i].temp, Int2Num(5)))
  \/ IsNum(Daily[i].wind) /\ Less(Int2Num(20), Daily[i].wind)

\* the detector rule of an event type holds for record i
RuleHolds(type, i) ==
  CASE type = "Extreme Heat" -> IsNum(Daily[i].temp) /\ Less(Int2Num(35), Daily[i].temp)
    [] type = "Extreme Cold" -> IsNum(Daily[i].temp) /\ Less(Daily[i].temp, Int2Num(0))
    [] type = "Heavy Rain"   -> IsNum(Daily[i].precip) /\ Less(Int2Num(25), Daily[i].precip)
    [] type = "Strong Winds" -> IsNum(Daily[i].wind) /\ Less(Int2Num(20), Daily[i].wind)

EventTypes == {"Extreme Heat", "Extreme Cold", "Heavy Rain", "Strong Winds"}

EventsAt(events, type, date) ==
  {e \in 1..Len(events) : events[e].type = type /\ events[e].date = date}

\* the daily series is the end-to-end scenario of the two January days
IsDay(i, date, t, p, w) ==
  /\ Daily[i].date = date
  /\ Daily[i].temp = Int2Num(t) /\ Daily[i].precip = Int2Num(p) /\ Daily[i].wind = Int2Num(w)

TwoDayScenario ==
  /\ Len(Daily) = 2
  /\ IsDay(1, [y |-> 2024, m |-> 1, d |-> 1], 36, 0, 5)
  /\ IsDay(2, [y |-> 2024, m |-> 1, d |-> 15], -2, 30, 25)

MonthlyMean(j, field) ==
  IF field = "temp" THEN Monthly[j].meanTemp
  ELSE IF field = "precip" THEN Monthly[j].meanPrecip ELSE Monthly[j].meanWind

ChartSeries(field) ==
  IF field = "temp" THEN getHistoricalData.tempData
  ELSE IF field = "precip" THEN getHistoricalData.precipData ELSE getHistoricalData.windData

KeyBefore(a, b) == a[1] < b[1] \/ (a[1] = b[1] /\ a[2] < b[2])

----------------------------------------------------------------------------
(* Properties *)

\* C1: for every non-empty daily series the monthly aggregate of
\* processApiData has exactly one entry per distinct (year, month) pair that
\* occurs among the daily dates, and its entries are strictly ascending by
\* (year, month).
C1_OneEntryPerCalendarMonth ==
  forecastData.hasData =>
    LET keys == {CalendarMonth(i) : i \in Days}
    IN  /\ Len(Monthly) = Cardinality(keys)
        /\ {Monthly[j].month : j \in 1..Len(Monthly)} = keys
        /\ \A j \in 1..(Len(Monthly) - 1) : KeyBefore(Monthly[j].month, Monthly[j + 1].month)

\* C2: for every charted month the extreme-event count is the number of
\* daily records of the month for which at least one monthly extreme
\* condition holds, a day adding 1 however many conditions it meets; the
\* two-day scenario gives a count of 2.
C2_ExtremeCountIsDaysWithCondition ==
  forecastData.hasData =>
    /\ \A j \in 1..Len(Monthly) :
         getHistoricalData.extremeEvents[j]
           = Cardinality({i \in GroupOf(Monthly[j].month) : MonthlyExtreme(i)})
    /\ (TwoDayScenario /\ ~tzWest) => getHistoricalData.extremeEvents = <<2>>

\* C3: for every month in which no daily record has a present value of a
\* field, the mean of that field is absent, never 0, both in the monthly
\* aggregate and in the monthly series handed to the chart.
C3_AbsentMeanNeverZero ==
  forecastData.hasData =>
    \A j \in 1..Len(Monthly), field \in Fields :
      PresentIn(GroupOf(Monthly[j].month), field) = {} =>
        /\ ~IsNum(MonthlyMean(j, field))
        /\ ~IsNum(ChartSeries(field)[j])

DateBefore(a, b) ==
  \/ a.y < b.y
  \/ a.y = b.y /\ a.m < b.m
  \/ a.y = b.y /\ a.m = b.m /\ a.d < b.d

\* v is a multiple of 1/p nearest to the number x
Nearest(v, x, p) ==
  /\ IsNum(v) /\ p % v.d = 0
  /\ 2 * Abs(v.n * (p \div v.d) * x.d - x.n * p) <= x.d

\* v is the nearest multiple of 1/p to the largest (smallest) value of the
\* field over the records S
NearestMax(v, S, field, p) ==
  \E i \in S : /\ Nearest(v, FieldOf(i, field), p)
               /\ \A k \in S : ~Less(FieldOf(i, field), FieldOf(k, field))

NearestMin(v, S, field, p) ==
  \E i \in S : /\ Nearest(v, FieldOf(i, field), p)
               /\ \A k \in S : ~Less(FieldOf(k, field), FieldOf(i, field))

NearestMean(v, S, field, p) ==
  Nearest(v, Div(SumOver(S, field), Int2Num(Cardinality(S))), p)

\* C5: for every daily record the detector emits an Extreme Heat event iff
\* the temperature is present and above 35, an Extreme Cold event iff it is
\* present and below 0, a Heavy Rain event iff the precipitation is present
\* and above 25, a Strong Winds event iff the wind is present and above 20;
\* the rules are independent, every event carries the date of its record, a
\* 36/30/25 record yields three events and the two-day scenario four.
C5_DetectorRules ==
  Len(Daily) > 0 =>
    LET events == recentExtremeEvents
    IN  /\ \A i \in Days, type \in EventTypes :
             Cardinality(EventsAt(events, type, Daily[i].date))
               = IF RuleHolds(type, i) THEN 1 ELSE 0
        /\ \A e \in 1..Len(events) : \E i \in Days : events[e].date = Daily[i].date
        /\ \A i \in Days :
             IsDay(i, Daily[i].date, 36, 30, 25) =>
               Cardinality({e \in 1..Len(events) : events[e].date = Daily[i].date}) = 3
        /\ TwoDayScenario => Len(events) = 4

C5_Witness == TwoDayScenario /\ Len(recentExtremeEvents) = 4

\* C6: whenever no daily record matches a detector rule, the empty series
\* included, the detector returns the empty sequence and no placeholder.
C6_NoMatchGivesEmpty ==
  (\A i \in Days, type \in EventTypes : ~RuleHolds(type, i)) => recentExtremeEvents = <<>>

\* C7: the detector's output is ordered by date descending, and every event
\* of a day that triggers several rules is kept.
C7_NewestFirstAllKept ==
  LET events == recentExtremeEvents
  IN  /\ \A e \in 1..(Len(events) - 1) : ~DateBefore(events[e].date, events[e + 1].date)
      /\ \A i \in Days, type \in EventTypes :
           RuleHolds(type, i) => EventsAt(events, type, Daily[i].date) # {}

\* an earlier day listed before a later day that triggers several rules
C7_Witness ==
  \E a, b \in Days :
    /\ a < b /\ DateBefore(Daily[a].date, Daily[b].date)
    /\ \E type \in EventTypes : RuleHolds(type, a)
    /\ Cardinality({type \in EventTypes : RuleHolds(type, b)}) >= 2
    /\ recentExtremeEvents[Len(recentExtremeEvents)].date = Daily[a].date

\* C8: when a summarized series is empty or holds only absent values, mean,
\* min and max are reported absent and the total 0; no fixed non-zero figure
\* stands in for them.
C8_EmptySummaryIsAbsent ==
  /\ PresentIn(Days, "temp") = {} =>
       /\ dataStatistics.avgTemp = NA
       /\ WeatherInsights.rendered =>
            /\ WeatherInsights.avgTemp = NA
            /\ WeatherInsights.minTemp = NA
            /\ WeatherInsights.maxTemp = NA
  /\ PresentIn(Days, "precip") = {} =>
       /\ IsZero(dataStatistics.totalRainfall)
       /\ WeatherInsights.rendered =>
            /\ IsZero(WeatherInsights.totalPrecip)
            /\ WeatherInsights.maxPrecip = NA
  /\ PresentIn(Days, "wind") = {} =>
       /\ dataStatistics.avgWind = NA
       /\ WeatherInsights.rendered =>
            /\ WeatherInsights.avgWind = NA
            /\ WeatherInsights.maxWind = NA

\* C9: for every series with a present value, mean, min and max are taken
\* over the present values only and the total is their sum; an absent entry
\* adds to neither the count nor the sum.
C9_StatsOverPresentOnly ==
  LET stats    == dataStatistics
      insights == WeatherInsights
  IN  /\ PresentIn(Days, "temp") # {} =>
           LET P == PresentIn(Days, "temp")
           IN  /\ NearestMean(stats.avgTemp, P, "temp", 10)
               /\ NearestMean(insights.avgTemp, P, "temp", 10)
               /\ NearestMin(insights.minTemp, P, "temp", 10)
               /\ NearestMax(insights.maxTemp, P, "temp", 10)
      /\ PresentIn(Days, "precip") # {} =>
           LET P == PresentIn(Days, "precip")
           IN  /\ Nearest(stats.totalRainfall, SumOver(P, "precip"), 1)
               /\ Nearest(insights.totalPrecip, SumOver(P, "precip"), 10)
               /\ NearestMax(insights.maxPrecip, P, "precip", 10)
      /\ PresentIn(Days, "wind") # {} =>
           LET P == PresentIn(Days, "wind")
           IN  /\ NearestMean(stats.avgWind, P, "wind", 10)
               /\ NearestMean(insights.avgWind, P, "wind", 10)
               /\ NearestMax(insights.maxWind, P, "wind", 10)

\* the series 5, absent, 15: mean 10, min 5, max 15, total 20, count 2
C9_Witness ==
  /\ Column(Daily, "temp") = <<Int2Num(5), Null, Int2Num(15)>>
  /\ Column(Daily, "precip") = <<Int2Num(5), Null, Int2Num(15)>>
  /\ Cardinality(PresentIn(Days, "temp")) = 2
  /\ WeatherInsights.avgTemp = Int2Num(10) /\ dataStatistics.avgTemp = Int2Num(10)
  /\ WeatherInsights.minTemp = Int2Num(5) /\ WeatherInsights.maxTemp = Int2Num(15)
  /\ WeatherInsights.totalPrecip = Int2Num(20) /\ dataStatistics.totalRainfall = Int2Num(20)

\* C10: a daily value that is absent stays absent in the per-day series
\* handed to the charts: the series never holds a 0 in its place.
C10_AbsentStaysAbsent ==
  \A i \in Days :
    /\ ~IsNum(Daily[i].temp) => ~IsZero(temps[i])
    /\ ~IsNum(Daily[i].precip) => ~IsZero(precips[i])
    /\ ~IsNum(Daily[i].wind) => ~IsZero(winds[i])

----------------------------------------------------------------------------
(* Properties of processApiData against the payload it was given *)

\* the payload carries at least one T2M date
HasDays(p) ==
  /\ p.k # "null" /\ p.hasData
  /\ "T2M" \in DOMAIN p.data /\ Len(p.data["T2M"].dates) > 0

\* a null payload, one without data, one without available, or one whose
\* T2M dates are empty
Degenerate(p) == ~HasDays(p) \/ "available" \notin DOMAIN p

\* the payload supplies no value of the parameter for day i
Affected(p, param, i) ==
  \/ param \notin p.available
  \/ param \notin DOMAIN p.data
  \/ i > Len(p.data[param].values)

ParamField(param) ==
  IF param = "T2M" THEN "temp" ELSE IF param = "WS2M" THEN "wind" ELSE "precip"

\* v is the daily value of the raw number: m/s times 3.6 for the wind
IsConverted(v, raw, param) ==
  /\ IsNum(v)
  /\ IF param = "WS2M" THEN v.n * 10 * raw.d = 36 * raw.n * v.d ELSE v = raw

FetchFailed == error = "Failed to fetch weather data. Please try again later."

\* C11: for a payload with an available list and at least one date,
\* processApiData does not throw; it yields one record per date, in which a
\* parameter missing from available, missing from data, or with a values
\* array that ends before the day is absent, and every other parameter with
\* a number for the day holds that number.
C11_MissingParameterIsAbsent ==
  LET p == response.data
  IN  (response.ok /\ HasDays(p) /\ "available" \in DOMAIN p) =>
        /\ ~processApiDataThrows(p)
        /\ ~FetchFailed
        /\ forecastData.hasData =>
             /\ Len(Daily) = Len(p.data["T2M"].dates)
             /\ \A i \in Days :
                  /\ Daily[i].date = p.data["T2M"].dates[i]
                  /\ \A param \in {"T2M", "PRECTOT", "WS2M"} :
                       IF Affected(p, param, i)
                       THEN ~IsNum(FieldOf(i, ParamField(param)))
                       ELSE IsNum(p.data[param].values[i]) =>
                              IsConverted(FieldOf(i, ParamField(param)),
                                          p.data[param].values[i], param)

\* the T2M values end before the last date, whose record has no temperature
\* and keeps its precipitation
C11_Witness ==
  /\ forecastData.hasData /\ Len(Daily) >= 2
  /\ Len(response.data.data["T2M"].values) < Len(Daily)
  /\ Daily[Len(Daily)].temp = Null
  /\ IsNum(Daily[Len(Daily)].precip)
  /\ IsNum(Daily[1].temp)

\* C12: for a null payload, a payload without data, a payload without
\* available and a payload whose T2M dates are empty, processApiData does
\* not throw and the page holds empty daily and monthly sequences with
\* hasData false.
C12_TotalOnDegeneratePayloads ==
  (response.ok /\ Degenerate(response.data)) =>
    /\ ~FetchFailed
    /\ forecastData.daily = <<>>
    /\ forecastData.monthly = <<>>
    /\ ~forecastData.hasData

\* C13: a number supplied for a day under PRECTOT or under PRECTOTCORR is
\* the precipitation of that day's record.
C13_EitherPrecipitationCode ==
  forecastData.hasData =>
    LET p == response.data
    IN  \A code \in {"PRECTOT", "PRECTOTCORR"} :
          (code \in p.available /\ code \in DOMAIN p.data) =>
            \A i \in Days :
              (i <= Len(p.data[code].values) /\ IsNum(p.data[code].values[i])) =>
                Daily[i].precip = p.data[code].values[i]

----------------------------------------------------------------------------
(* Properties of LineChart; indices count from 0 as in the component *)

ChartLen == Len(props.data)

Svg == chart.kind = "svg"

PresentAt(i) == IsNum(props.data[i + 1])

Retained == chart.pointIndices

RetainedSet == {Retained[j] : j \in 1..Len(Retained)}

IndexSet(points) == {points[j].index : j \in 1..Len(points)}

AscendingIndex(points) ==
  \A j \in 1..(Len(points) - 1) : points[j].index < points[j + 1].index

GlobalMaxAt(i) ==
  /\ PresentAt(i)
  /\ \A j \in 0..(ChartLen - 1) : PresentAt(j) => ~Less(props.data[i + 1], props.data[j + 1])

GlobalMinAt(i) ==
  /\ PresentAt(i)
  /\ \A j \in 0..(ChartLen - 1) : PresentAt(j) => ~Less(props.data[j + 1], props.data[i + 1])

\* 0-based position of a retained index in the retained sequence
PositionOf(idx) == (CHOOSE j \in 1..Len(Retained) : Retained[j] = idx) - 1

\* C14: for every series shorter than 100 values every index is retained,
\* and the polyline and the data point circles hold exactly one point per
\* present value, in index order, under the index of the value.
C14_ShortSeriesKeepsEveryIndex ==
  (Svg /\ ChartLen < 100) =>
    /\ Retained = [j \in 1..ChartLen |-> j - 1]
    /\ IndexSet(chart.points) = {i \in 0..(ChartLen - 1) : PresentAt(i)}
    /\ Len(chart.points) = Cardinality(IndexSet(chart.points))
    /\ AscendingIndex(chart.points)
    /\ chart.circles = chart.points

\* a compact chart of 50 values draws all 50
C14_Witness ==
  /\ Svg /\ props.compact /\ ChartLen = 50
  /\ Len(chart.points) = 50 /\ Len(chart.circles) = 50
  /\ chart.points[50].index = 49

\* C15: for every series of 100 values or more, down-sampled or not, the
\* retained indices include 0, length-1, an index holding the largest
\* present value and an index holding the smallest present value.
C15_EndsAndExtremesRetained ==
  (Svg /\ ChartLen >= 100) =>
    /\ 0 \in RetainedSet
    /\ (ChartLen - 1) \in RetainedSet
    /\ \E i \in RetainedSet : GlobalMaxAt(i)
    /\ \E i \in RetainedSet : GlobalMinAt(i)

\* a down-sampled series of 200 values whose maximum lies off the stride
C15_Witness ==
  /\ Svg /\ props.compact /\ ChartLen = 200
  /\ Len(Retained) < 200
  /\ GlobalMaxAt(1) /\ ~GlobalMaxAt(0)
  /\ 1 \in RetainedSet /\ 0 \in RetainedSet /\ 199 \in RetainedSet

\* C16: for every series of 100 values or more the retained indices are,
\* strictly ascending and without repetition, 0, length-1, an index of the
\* smallest present value, an index of the largest present value and every
\* N-th index, N = max(1, floor(length / 50)).
C16_RetainedIsUnionWithStride ==
  (Svg /\ ChartLen >= 100) =>
    LET N == IF ChartLen \div 50 >= 1 THEN ChartLen \div 50 ELSE 1
        stride == {i \in 0..(ChartLen - 1) : i % N = 0}
        maxAt == {i \in 0..(ChartLen - 1) : GlobalMaxAt(i)}
        minAt == {i \in 0..(ChartLen - 1) : GlobalMinAt(i)}
    IN  /\ \A j \in 1..(Len(Retained) - 1) : Retained[j] < Retained[j + 1]
        /\ \E a \in minAt : \E b \in maxAt :
             RetainedSet = {0, ChartLen - 1, a, b} \cup stride

\* y is the height at which the value v is drawn
IsHeightOf(y, v) ==
  LET max   == MaxValid(props.data)
      min   == MinValid(props.data)
      range == IF Less(Int2Num(1), Sub(max, min)) THEN Sub(max, min) ELSE Int2Num(1)
  IN  Mul(Sub(Int2Num(props.height - 30), y), range)
        = Mul(Sub(v, min), Int2Num(props.height - 42))

\* C17: the polyline holds exactly the retained indices whose value is
\* present, each drawn at the height of its own value; a retained index
\* with null, undefined or NaN has no point, neither at 0 nor elsewhere.
C17_AbsentValueHasNoPoint ==
  Svg =>
    /\ IndexSet(chart.points) = {i \in RetainedSet : PresentAt(i)}
    /\ Len(chart.points) = Cardinality(IndexSet(chart.points))
    /\ \A j \in 1..Len(chart.points) :
         IsHeightOf(chart.points[j].y, props.data[chart.points[j].index + 1])
    /\ IndexSet(chart.circles) \subseteq {i \in RetainedSet : PresentAt(i)}

\* a down-sampled series whose first value is absent: index 0 is retained
\* and has no point
C17_Witness ==
  /\ Svg /\ props.compact /\ ChartLen > 100
  /\ ~PresentAt(0) /\ 0 \in RetainedSet
  /\ 0 \notin IndexSet(chart.points)
  /\ Len(chart.points) = Len(Retained) - 1

\* C18: with more than 12 labels that all end in a 2-digit number after a
\* space, the labelled indices are the first, the last and every index whose
\* number differs from its predecessor's; in every other case they are the
\* first, floor((n-1)/2) and the last.
C18_AxisLabelSelection ==
  (Svg /\ Len(props.labels) > 0) =>
    LET labels == props.labels
        n == Len(labels)
        selected == {chart.axisLabelPositions[j].index : j \in 1..Len(chart.axisLabelPositions)}
    IN  IF n > 12 /\ \A i \in 1..n : Len(labels[i]) = 2
        THEN selected = {0, n - 1} \cup {i \in 1..(n - 1) : labels[i + 1][2] # labels[i][2]}
        ELSE selected = {0, (n - 1) \div 2, n - 1}

\* C19: a point at position i among the m retained indices is drawn at
\* x = i/(m-1) * (width - 24) + 12, the only point of m = 1 at 12; the first
\* retained index is drawn at 12 and the last at width - 12.
C19_HorizontalPosition ==
  Svg =>
    LET m == Len(Retained)
        w == chart.width
    IN  \A j \in 1..Len(chart.points) :
          LET pt == chart.points[j]
              i  == PositionOf(pt.index)
          IN  /\ IF m = 1 THEN pt.x = Int2Num(12)
                 ELSE pt.x.n * (m - 1) = (i * (w - 24) + 12 * (m - 1)) * pt.x.d
              /\ i = 0 => pt.x = Int2Num(12)
              /\ (i = m - 1 /\ m > 1) => pt.x = Int2Num(w - 12)

\* a down-sampled series drawn from margin to margin
C19_Witness ==
  /\ Svg /\ props.compact /\ ChartLen = 200
  /\ Len(Retained) < 200 /\ Len(chart.points) = Len(Retained)
  /\ chart.points[1].x = Int2Num(12)
  /\ chart.points[Len(chart.points)].x = Int2Num(288)
  /\ chart.points[2].x = Num(276 + 12 * (Len(Retained) - 1), Len(Retained) - 1)

----------------------------------------------------------------------------
(* Recomputation *)

----------------------------------------------------------------------------
(* Extreme-event counts and absent values *)

\* the monthly extreme condition of one field holds on a present value
FieldExtreme(i, field) ==
  CASE field = "temp"   -> IsNum(Daily[i].temp)
                           /\ (Less(Int2Num(30), Daily[i].temp) \/ Less(Daily[i].temp, Int2Num(5)))
    [] field = "precip" -> IsNum(Daily[i].precip) /\ Less(Int2Num(10), Daily[i].precip)
    [] field = "wind"   -> IsNum(Daily[i].wind) /\ Less(Int2Num(20), Daily[i].wind)

\* the number of (record, field) pairs of S whose condition holds
ConditionsMet(S) == Cardinality({c \in S \X Fields : FieldExtreme(c[1], c[2])})

\* C21: a daily record whose temperature is absent never adds to an
\* extreme-event count on account of temperature, and likewise for absent
\* precipitation and wind: the total extreme count and the count of every
\* charted month are the numbers of conditions that hold on present values.
C21_AbsentValueAddsNoExtreme ==
  Len(Daily) > 0 =>
    /\ dataStatistics.totalExtreme = ConditionsMet(Days)
    /\ \A j \in 1..Len(getHistoricalData.orderedMonths) :
         getHistoricalData.extremeEvents[j]
           = ConditionsMet(GroupOf(getHistoricalData.orderedMonths[j]))

----------------------------------------------------------------------------
(* The date range of the forecast page *)

\* the UTC calendar day of an instant whose local calendar day is dt and
\* whose UTC time of day is midnight (what toISOString prints)
UtcDate(dt) == IF tzWest THEN NextDay(dt) ELSE dt

\* Date.prototype.setFullYear(y) on a date of local day dt: month and day
\* are kept, and 29 February of a year without one runs over to 1 March
setFullYear(dt, y) ==
  IF dt.d <= DaysInMonth(y, dt.m) THEN [y |-> y, m |-> dt.m, d |-> dt.d]
  ELSE [y |-> y, m |-> dt.m + 1, d |-> dt.d - DaysInMonth(y, dt.m)]

\* the body of useEffect(..., [endDate]): the value handed to setStartDate.
\* getMonth, getDate, getFullYear and setDate read and write the local
\* calendar day, formatDate prints the UTC one
startOneYearBefore(end) ==
  LET local        == LocalDate(end)
      currentMonth == local.m - 1
      currentDay   == local.d
      moved        == setFullYear(local, local.y - 1)
      start        == IF currentMonth = 1 /\ currentDay = 29 /\ ~isLeapYear(moved.y)
                      THEN [moved EXCEPT !.d = 28]
                      ELSE moved
  IN  UtcDate(start)

\* the days the two date inputs are set to: none is after today
PickedDates ==
  {[y |-> 2020, m |-> 2, d |-> 29], [y |-> 2021, m |-> 3, d |-> 1],
   [y |-> 2023, m |-> 1, d |-> 29], [y |-> 2024, m |-> 1, d |-> 1], Today}

\* an answer with one day of data, one whose processing throws, and a
\* failed request
RangeResponses ==
  {[ok |-> TRUE, data |-> Payload(<<SeriesDates[1]>>, <<RawDay(36, 30, 25)>>, "full")],
   [ok |-> TRUE, data |-> NoAvailable(<<SeriesDates[1]>>, <<RawDay(5, 5, 5)>>)],
   [ok |-> FALSE, data |-> NullPayload]}

RangeInit ==
  /\ tzWest \in BOOLEAN
  /\ response \in RangeResponses
  /\ forecastData = [daily |-> <<>>, monthly |-> <<>>, hasData |-> FALSE, errorMessage |-> ""]
  /\ loading = FALSE
  /\ error = ""
  /\ endDate = Today
  /\ startDate = startOneYearBefore(Today)
  /\ selectedState = 1
  /\ props = NoProps
  /\ chart = NotRendered
  /\ ApiIdle
  /\ MapsMounted

\* onChange of the start date input
SetStartDate(d) ==
  /\ startDate' = d
  /\ UNCHANGED <<tzWest, response, forecastData, loading, error, endDate, selectedState, props, chart, apiVars, mapVars>>

\* onChange of the end date input and, when the value is a new one, the
\* effect that follows the render
SetEndDate(d) ==
  /\ endDate' = d
  /\ startDate' = IF d # endDate THEN startOneYearBefore(d) ELSE startDate
  /\ UNCHANGED <<tzWest, response, forecastData, loading, error, selectedState, props, chart, apiVars, mapVars>>

RangeNext ==
  \/ \E d \in PickedDates : SetStartDate(d)
  \/ \E d \in PickedDates : SetEndDate(d)
  \/ FetchData
  \/ ResponseOk
  \/ ResponseError

RangeSpec == RangeInit /\ [][RangeNext]_vars

\* the rest of fetchData, run when the awaited request has settled
Settled == ResponseOk \/ ResponseError

\* the awaited request settles and the rest of fetchData then runs: weak
\* fairness of Settled, whose steps are possible exactly while loading is
\* true (each of them changes loading), written out as
\* []<>(~ENABLED <<Settled>>_vars) \/ []<><<Settled>>_vars
FairRangeSpec == RangeSpec /\ ([]<>(~loading) \/ []<><<Settled>>_vars)

----------------------------------------------------------------------------
(* Properties of the date range and of fetchData *)

\* calendar order of two days
DayBefore(a, b) == DayNumber(a) < DayNumber(b)

\* the end day is after the day of the same month and day number one year
\* past the start day
LongerThanOneYear(start, end) ==
  \/ end.y > start.y + 1
  \/ end.y = start.y + 1 /\ end.m > start.m
  \/ end.y = start.y + 1 /\ end.m = start.m /\ end.d > start.d

\* C22: validateDateRange rejects with 'Date range cannot exceed 1 year' if
\* and only if the range is longer than one year, rejects with 'End date
\* cannot be before start date' whenever the end is before the start, and
\* accepts every range of at most one year whose end is not before its start.
C22_RangeValidation ==
  /\ validateDateRange = "Date range cannot exceed 1 year"
       <=> LongerThanOneYear(startDate, endDate)
  /\ DayBefore(endDate, startDate)
       => validateDateRange = "End date cannot be before start date"
  /\ (~DayBefore(endDate, startDate) /\ ~LongerThanOneYear(startDate, endDate))
       => validateDateRange = ""

\* the same month and day one year earlier, 29 February becoming 28
\* February when the earlier year has none
SameDayOneYearEarlier(end) ==
  IF end.m = 2 /\ end.d = 29 /\ ~isLeapYear(end.y - 1)
  THEN [y |-> end.y - 1, m |-> 2, d |-> 28]
  ELSE [y |-> end.y - 1, m |-> end.m, d |-> end.d]

\* C23: whenever the end date changes, the start date is set to the same
\* month and day exactly one year earlier; an end date of 29 February whose
\* previous year is not a leap year gives 28 February of the previous year.
C23_StartFollowsEnd ==
  [][endDate' # endDate => startDate' = SameDayOneYearEarlier(endDate')]_vars

\* C24: every invocation of fetchData eventually leaves loading = false:
\* a failed validation resets it in the same step, and a request that was
\* sent is followed by the finally block whether the answer is ok, not ok,
\* or one whose processing throws.
C24_LoadingEndsFalse ==
  /\ [][(~loading /\ validateDateRange # "") => ~loading']_vars
  /\ loading ~> ~loading

\* the throw path has run to its end
C24_Witness ==
  /\ ~loading
  /\ response.ok
  /\ processApiDataThrows(response.data)
  /\ error = "Failed to fetch weather data. Please try again later."

\* C25: when date validation fails, fetchData sends no request (no answer
\* is awaited: loading ends false) and leaves the forecast data unchanged;
\* only error, which becomes the validation message, and loading change.
\* A step that keeps both dates while loading is false is a step of
\* fetchData.
C25_FailedValidationFrame ==
  [][(~loading /\ validateDateRange # "" /\ UNCHANGED <<startDate, endDate>>)
       => /\ forecastData' = forecastData
          /\ loading' = FALSE
          /\ error' = validateDateRange
          /\ UNCHANGED <<tzWest, response, selectedState, props, chart, apiVars, mapVars>>]_vars

\* fetched data is on display next to the message of a later failed validation
C25_Witness ==
  /\ ~loading
  /\ error = "Date range cannot exceed 1 year"
  /\ forecastData.hasData
  /\ Len(forecastData.daily) > 0

----------------------------------------------------------------------------
(* api/axios.jsx: postSafe *)

JsUndefined == [k |-> "undefined"]

Str(s) == [k |-> "str", v |-> s]

Obj(tag) == [k |-> "obj", v |-> tag]

\* what `x ? a : b` and `x || b` take for true: an object or a string that
\* is not empty
Truthy(v) == v.k = "obj" \/ (v.k = "str" /\ v.v # "")

\* bodies of an answer: JSON objects, text, an empty body, none
Bodies == {Obj("payload"), Obj("detail"), Str("Internal Server Error"), Str(""),
           JsNull, JsUndefined}

Messages == {Str("Network Error"), Str("Request failed"), Str(""), JsUndefined}

\* how api.post settles: resolved with a response, or rejected with an
\* error that carries the response (an answer outside 2xx), carries only
\* the request (nothing came back), or carries neither (the request was
\* never made)
Outcomes ==
  {[kind |-> "resolved", res |-> [status |-> st, data |-> b]]
     : st \in {200, 201, 204}, b \in Bodies}
  \cup {[kind |-> "rejected",
         err |-> [response |-> [status |-> st, data |-> b], request |-> TRUE, message |-> m]]
          : st \in {404, 422, 500}, b \in Bodies, m \in {Str("Request failed"), JsUndefined}}
  \cup {[kind |-> "rejected",
         err |-> [response |-> JsUndefined, request |-> rq, message |-> m]]
          : rq \in BOOLEAN, m \in Messages}

\* resp is a response object, which is never falsy
unwrap(resp) == IF Truthy(resp.data) THEN resp.data ELSE resp

\* the error payload without the branch for a request that got no answer
toErrorPayloadWithoutRequestBranch(err) ==
  IF err.response # JsUndefined
  THEN [ok |-> FALSE, status |-> err.response.status,
        error |-> IF Truthy(err.response.data) THEN err.response.data ELSE err.message]
  ELSE [ok |-> FALSE, status |-> 0,
        error |-> IF Truthy(err.message) THEN err.message ELSE Str("Unknown error")]

toErrorPayload(err) ==
  IF err.response # JsUndefined
  THEN [ok |-> FALSE, status |-> err.response.status,
        error |-> IF Truthy(err.response.data) THEN err.response.data ELSE err.message]
  ELSE IF err.request
  THEN [ok |-> FALSE, status |-> 0, error |-> Str("No response from server")]
  ELSE [ok |-> FALSE, status |-> 0,
        error |-> IF Truthy(err.message) THEN err.message ELSE Str("Unknown error")]

\* the value the promise of postSafe resolves to
postSafe(o) ==
  IF o.kind = "resolved"
  THEN [ok |-> TRUE, status |-> o.res.status, data |-> unwrap(o.res)]
  ELSE toErrorPayload(o.err)

\* the forecast page, the chart and the maps page take no part
ForecastUnused ==
  /\ tzWest = FALSE
  /\ response = [ok |-> TRUE, data |-> NoData]
  /\ forecastData = [daily |-> <<>>, monthly |-> <<>>, hasData |-> FALSE, errorMessage |-> ""]
  /\ loading = FALSE
  /\ error = ""
  /\ endDate = Today
  /\ startDate = [Today EXCEPT !.y = @ - 1]
  /\ selectedState = 1
  /\ props = NoProps
  /\ chart = NotRendered

ApiInit ==
  /\ ForecastUnused
  /\ MapsMounted
  /\ outcome \in Outcomes
  /\ result = JsNull

\* one call of postSafe, from the request to the returned value
CallPostSafe ==
  /\ result = JsNull
  /\ result' = postSafe(outcome)
  /\ UNCHANGED <<pageVars, chartVars, outcome, mapVars>>

ApiNext == CallPostSafe

ApiSpec == ApiInit /\ [][ApiNext]_vars

\* C26: postSafe never throws: a call returns either { ok: true, status,
\* data } or { ok: false, status, error }; when no response was received
\* the status is 0 and the error is 'No response from server'; when the
\* server answers with an error the status is that answer's HTTP status.
C26_PostSafeReturnsPayload ==
  result # JsNull =>
    /\ \/ result.ok /\ DOMAIN result = {"ok", "status", "data"}
       \/ ~result.ok /\ DOMAIN result = {"ok", "status", "error"}
    /\ (outcome.kind = "rejected" /\ outcome.err.response = JsUndefined /\ outcome.err.request)
         => /\ ~result.ok
            /\ result.status = 0
            /\ result.error = Str("No response from server")
    /\ (outcome.kind = "rejected" /\ outcome.err.response # JsUndefined)
         => /\ ~result.ok
            /\ result.status = outcome.err.response.status

\* a call whose request got no answer has returned
C26_Witness ==
  /\ result # JsNull
  /\ outcome.kind = "rejected"
  /\ outcome.err.response = JsUndefined
  /\ outcome.err.request

----------------------------------------------------------------------------
(* pages/homePage.jsx: the maps page (EnglishCountryMap) *)

\* the points clicked on the map, as <<lat, lng>>
Places == {<<10, 20>>, <<30, 40>>, <<50, 60>>}

\* what reverseGeocode returns: a name of the address, or the fallback of
\* an empty address and of the catch block
GeocodeNames == {"Pune", "Unknown Location"}

MapInit ==
  /\ ForecastUnused
  /\ ApiIdle
  /\ MapsMounted

\* the click handler up to its await: reverseGeocode has sent its request
MapClick(p) ==
  /\ p \notin geocoding
  /\ geocoding' = geocoding \cup {p}
  /\ loadingLocation' = TRUE
  /\ UNCHANGED <<pageVars, chartVars, apiVars, selectedFeature, checkResult, mapLoading, checkRequest>>

\* the reverse geocoding of a click answers (or fails): the finally block
\* of reverseGeocode, then the rest of the click handler
GeocodeReply(p, name) ==
  /\ p \in geocoding
  /\ geocoding' = geocoding \ {p}
  /\ loadingLocation' = FALSE
  /\ selectedFeature' = [name |-> name, lat |-> p[1], lng |-> p[2]]
  /\ checkResult' = JsNull
  /\ UNCHANGED <<pageVars, chartVars, apiVars, mapLoading, checkRequest>>

\* handleSubmit up to its await; the button is disabled without a selected
\* location, without a date or a number of days, and while loading. filled
\* says that the date is not in the past and the days are within 1..30;
\* otherwise the handler alerts and returns
handleSubmit(filled) ==
  /\ selectedFeature # JsNull
  /\ ~mapLoading
  /\ IF filled
     THEN /\ mapLoading' = TRUE
          /\ checkRequest' = [lat |-> selectedFeature.lat, lon |-> selectedFeature.lng]
     ELSE UNCHANGED <<mapLoading, checkRequest>>
  /\ UNCHANGED <<pageVars, chartVars, apiVars, selectedFeature, checkResult, loadingLocation, geocoding>>

\* postCheckDate answers: resp.data, the answer computed for the lat and
\* lon of the request, is stored when resp.ok; otherwise an alert is shown
CheckReply(ok) ==
  /\ checkRequest # JsNull
  /\ checkResult' = IF ok THEN [k |-> "obj", lat |-> checkRequest.lat, lon |-> checkRequest.lon]
                    ELSE checkResult
  /\ mapLoading' = FALSE
  /\ checkRequest' = JsNull
  /\ UNCHANGED <<pageVars, chartVars, apiVars, selectedFeature, loadingLocation, geocoding>>

MapNext ==
  \/ \E p \in Places : MapClick(p)
  \/ \E p \in Places, name \in GeocodeNames : GeocodeReply(p, name)
  \/ \E filled \in BOOLEAN : handleSubmit(filled)
  \/ \E ok \in BOOLEAN : CheckReply(ok)

MapSpec == MapInit /\ [][MapNext]_vars

\* the popup shows a check result
ResultShown == selectedFeature # JsNull /\ ~mapLoading /\ checkResult # JsNull

\* C27: on the maps page the check result shown always belongs to the
\* currently selected location: under any interleaving of map clicks,
\* reverse-geocoding replies and check-date replies, a result computed for
\* an earlier location is never displayed against a later location.
C27_ResultBelongsToSelection ==
  ResultShown =>
    /\ checkResult.lat = selectedFeature.lat
    /\ checkResult.lon = selectedFeature.lng

----------------------------------------------------------------------------
(* Properties of the forecast page: locations, totals, axis labels *)

\* the locations written on the displayed extreme events
LocationsShown ==
  {recentExtremeEvents[e].location : e \in 1..Len(recentExtremeEvents)}

\* C28: every displayed extreme event carries the location for which the
\* displayed daily data was fetched: a step that keeps the fetched data
\* (changing the state or country after a fetch, without fetching again)
\* does not change the location shown on the events.
C28_EventsKeepFetchLocation ==
  [][(forecastData' = forecastData /\ Len(forecastData.daily) > 0)
       => LocationsShown' = LocationsShown]_vars

\* the sum of the numbers of a sequence
RECURSIVE SumCounts(_, _)
SumCounts(s, n) == IF n = 0 THEN 0 ELSE SumCounts(s, n - 1) + s[n]

C29_SampleWitness ==
  /\ ~forecastData.hasData
  /\ Len(forecastData.daily) = 7

\* C30: for data and labels of equal length, every axis-label position
\* returned by getAxisLabelPositions lies between 12 and width - 12
\* inclusive and coincides with the x coordinate of the data point of the
\* same index, in the full and in the down-sampled rendering.
C30_AxisLabelsOnDataPoints ==
  (Svg /\ Len(props.labels) = Len(props.data)) =>
    \A j \in 1..Len(chart.axisLabelPositions) :
      LET pos == chart.axisLabelPositions[j]
      IN  /\ ~Less(pos.x, Int2Num(12))
          /\ ~Less(Int2Num(chart.width - 12), pos.x)
          /\ \A q \in 1..Len(chart.points) :
               chart.points[q].index = pos.index => chart.points[q].x = pos.x

====
